---- MODULE Spec2Model ----
(***************************************************************************)
(* The transaction ledger of the finance tracker: FinanceProvider          *)
(* (src/src/contexts/FinanceContext.tsx), the two forms that call it       *)
(* (TransactionForm, EditTransactionModal, AddFundsModal) and the remote   *)
(* table it talks to (supabase/migrations/20250705183905_foggy_bonus.sql). *)
(*                                                                         *)
(* Every async handler of the provider is a closure over the render it was *)
(* created in: it keeps the `user` and `transactions` of the moment it was *)
(* called, awaits one remote request, and then continues with those        *)
(* captured values.  A call is therefore three steps here: the call        *)
(* (captures the closure, sends the request), the remote's answer, and the *)
(* continuation (setTransactions / setBalance / saveTransactionsLocally).  *)
(* In the state machine money is a whole number, for which the arithmetic  *)
(* of JavaScript numbers is exact, and timestamps are readings of a        *)
(* counter.  Fractional amounts, quotients and the parsing of timestamps   *)
(* are in the sections on numbers and on getSpendingSummary.               *)
(***************************************************************************)
EXTENDS Integers, Sequences, FiniteSets, TLC

\* ---------------------------------------------------------------- bounds
MaxTx == 3            \* ids handed out in one behaviour
MaxPending == 2       \* calls in flight at the same time
MaxCalls == 2         \* mutating calls made in one behaviour

NoUser == "null"
Users == {"u1", "u2"}
UnknownId == 0        \* an id the caller made up: no transaction ever carries it
Types == {"deposit", "expense"}
Quantities == {1, 2}
UnitCosts == {1, 2}
TotalCosts == {3}
UpdateShapes == {{"quantity"}, {"unit_cost"}, {"total_cost"}}

VARIABLES
  user,          \* useAuth().user: NoUser or the signed-in user's id
  transactions,  \* useState<Transaction[]>: the in-memory ledger
  balance,       \* useState(0): the balance scalar
  remote,        \* rows of the remote table `transactions`
  cache,         \* localStorage: user -> [present, txs] under finance-transactions-<user>
  pending,       \* calls in flight: closure, request, answer
  nextId,        \* next fresh uuid
  clock,         \* next timestamp reading (now() / new Date())
  calls,         \* mutating calls made so far
  offlineIds,    \* ids created by the fallback branch of addTransaction
  storage,       \* localStorage.setItem: "ok", or "full" when it throws
  deleted,       \* ids a finished delete or delete-all removed from the list it had
  last           \* what the most recently finished call did

vars == <<user, transactions, balance, remote, cache, pending, nextId, clock, calls, offlineIds,
          storage, deleted, last>>

\* ------------------------------------------------------------ pure helpers
RECURSIVE calculateBalanceFrom(_, _)
calculateBalanceFrom(txs, total) ==
  IF txs = <<>> THEN total
  ELSE calculateBalanceFrom(Tail(txs),
         IF Head(txs).type = "deposit" THEN total + Head(txs).total_cost
                                       ELSE total - Head(txs).total_cost)

\* a reduce that adds every total_cost, whatever the type
RECURSIVE calculateBalanceIgnoringType(_)
calculateBalanceIgnoringType(txs) ==
  IF txs = <<>> THEN 0 ELSE Head(txs).total_cost + calculateBalanceIgnoringType(Tail(txs))

calculateBalance(txs) == calculateBalanceFrom(txs, 0)

IdsOf(txs) == {txs[i].id : i \in 1..Len(txs)}

\* .order('created_at', { ascending: false }) over a set of rows
RECURSIVE OrderByCreatedDesc(_)
OrderByCreatedDesc(rows) ==
  IF rows = {} THEN <<>>
  ELSE LET newest == CHOOSE r \in rows : \A o \in rows :
                        \/ r.created_at > o.created_at
                        \/ (r.created_at = o.created_at /\ r.id >= o.id)
       IN <<newest>> \o OrderByCreatedDesc(rows \ {newest})

\* Array.prototype.sort((a, b) => b.created_at - a.created_at): stable
RECURSIVE InsertByCreatedDesc(_, _)
InsertByCreatedDesc(sorted, t) ==
  IF sorted = <<>> THEN <<t>>
  ELSE IF Head(sorted).created_at >= t.created_at
       THEN <<Head(sorted)>> \o InsertByCreatedDesc(Tail(sorted), t)
       ELSE <<t>> \o sorted

RECURSIVE SortByCreatedDesc(_)
SortByCreatedDesc(txs) ==
  IF txs = <<>> THEN <<>>
  ELSE InsertByCreatedDesc(SortByCreatedDesc(SubSeq(txs, 1, Len(txs) - 1)), txs[Len(txs)])

Transaction(id, uid, type, q, u, total, created, updated) ==
  [id |-> id, user_id |-> uid, type |-> type, quantity |-> q, unit_cost |-> u,
   total_cost |-> total, created_at |-> created, updated_at |-> updated]

NoUpdates == [keys |-> {}, quantity |-> 0, unit_cost |-> 0, total_cost |-> 0]

\* Partial<Transaction>: the keys present and their values (0 where absent)
Updates(keys, q, u, total) ==
  [keys |-> keys,
   quantity |-> IF "quantity" \in keys THEN q ELSE 0,
   unit_cost |-> IF "unit_cost" \in keys THEN u ELSE 0,
   total_cost |-> IF "total_cost" \in keys THEN total ELSE 0]

\* { ...transaction, ...updates }
Spread(t, updates) ==
  [t EXCEPT !.quantity = IF "quantity" \in updates.keys THEN updates.quantity ELSE @,
            !.unit_cost = IF "unit_cost" \in updates.keys THEN updates.unit_cost ELSE @,
            !.total_cost = IF "total_cost" \in updates.keys THEN updates.total_cost ELSE @,
            !.id = IF "id" \in updates.keys THEN updates.id ELSE @,
            !.user_id = IF "user_id" \in updates.keys THEN updates.user_id ELSE @]

\* a Partial<Transaction> that carries id and / or user_id
IdentityUpdates(keys, id, uid) == [keys |-> keys, id |-> id, user_id |-> uid] @@ NoUpdates

\* a filter that drops the first transaction when no id matches
WithoutIdsOrFirst(txs, ids) ==
  LET keep(t) == t.id \notin ids
  IN IF SelectSeq(txs, keep) = txs /\ txs # <<>> THEN Tail(txs) ELSE SelectSeq(txs, keep)

\* transactions.filter(t => !ids.includes(t.id))
WithoutIds(txs, ids) ==
  LET keep(t) == t.id \notin ids IN SelectSeq(txs, keep)

\* transactions.map(transaction => transaction.id === id ? data : transaction)
ReplaceAt(txs, id, data) ==
  [i \in 1..Len(txs) |-> IF txs[i].id = id THEN data ELSE txs[i]]

\* localStorage.setItem(`finance-transactions-${user.id}`, JSON.stringify(txs));
\* a setItem that throws is caught and logged, the entry stays as it was
saveTransactionsLocally(c, u, txs) ==
  IF u = NoUser \/ storage = "full" THEN c
  ELSE [c EXCEPT ![u] = [present |-> TRUE, txs |-> txs]]

\* ----------------------------------------------------------- remote table
\* CHECK (quantity > 0), CHECK (unit_cost >= 0), CHECK (type IN ...)
RowChecksHold(t) == t.quantity > 0 /\ t.unit_cost >= 0 /\ t.type \in Types

\* total_cost GENERATED ALWAYS AS (quantity * unit_cost) STORED
Generated(t) == [t EXCEPT !.total_cost = t.quantity * t.unit_cost]

\* an UPDATE by user u that turns row old into row new is accepted: the CHECKs hold,
\* the policy's USING (auth.uid() = user_id) holds of the new row too, and the
\* PRIMARY KEY stays unique
UpdateAccepted(rows, old, new, u) ==
  /\ RowChecksHold(new)
  /\ new.user_id = u
  /\ \A r \in rows \ {old} : r.id # new.id

RowsOf(rows, u) == {r \in rows : r.user_id = u}

\* --------------------------------------------------------- calls in flight
\* a call in flight: the closure (user, transactions, balance of the render it was
\* made in), the arguments, and the remote's answer once it has come
Call(kind, u, txs, bal, type, q, cost, id, updates, ids) ==
  [kind |-> kind, user |-> u, txs |-> txs, balance |-> bal, type |-> type, quantity |-> q,
   unit_cost |-> cost, id |-> id, updates |-> updates, ids |-> ids,
   stage |-> "sent", data |-> <<>>]

\* what a continuation did: the call, its branch, the closure's user, the id it
\* concerned, the number of 'Using offline mode' toasts it raised and, for a load,
\* the offline-created ids that existed when it was called
Did(kind, outcome, u, id, offline, seen) ==
  [kind |-> kind, outcome |-> outcome, user |-> u, id |-> id, offline |-> offline,
   seen |-> seen, success |-> 0, ids |-> {}, had |-> {}]

\* the same for a mutation: the number of toast.success it raised, the ids of the
\* list it was given (deleteAllTransactions) and the ids of the list in its closure
DidTo(op, outcome, id, offline, success) ==
  [Did(op.kind, outcome, op.user, id, offline, {})
     EXCEPT !.success = success, !.ids = op.ids, !.had = IdsOf(op.txs)]

Idle == Did("none", "none", NoUser, UnknownId, 0, {})

Remove(s, i) == SubSeq(s, 1, i - 1) \o SubSeq(s, i + 1, Len(s))

\* the inserts in flight
PendingAdds == Cardinality({i \in 1..Len(pending) : pending[i].kind = "add"})

Init ==
  /\ user = NoUser
  /\ transactions = <<>>
  /\ balance = 0
  /\ remote = {}
  /\ cache = [u \in Users |-> [present |-> FALSE, txs |-> <<>>]]
  /\ pending = <<>>
  /\ nextId = 1
  /\ clock = 1
  /\ calls = 0
  /\ offlineIds = {}
  /\ storage = "ok"
  /\ deleted = {}
  /\ last = Idle

\* ------------------------------------------------------ session lifecycle
\* useEffect([user]) with a user: loadTransactions() of the new render
SignIn(u) ==
  /\ user = NoUser
  /\ Len(pending) < MaxPending
  /\ user' = u
  /\ pending' = Append(pending, Call("load", u, <<>>, 0, "expense", 0, 0, UnknownId, NoUpdates, offlineIds))
  /\ last' = Idle
  /\ UNCHANGED <<transactions, balance, remote, cache, nextId, clock, calls, offlineIds,
                 storage, deleted>>

\* useEffect([user]) without a user: setTransactions([]); setBalance(0)
SignOut ==
  /\ user # NoUser
  /\ user' = NoUser
  /\ transactions' = <<>>
  /\ balance' = 0
  /\ last' = Idle
  /\ UNCHANGED <<remote, cache, pending, nextId, clock, calls, offlineIds, storage, deleted>>

\* a call made while nobody is signed in: toast.error, return
NotSignedIn ==
  /\ user = NoUser
  /\ UNCHANGED vars

\* a form that refuses the submission: a toast or a validation message, return
Rejected == UNCHANGED vars

Send(op) ==
  /\ user # NoUser
  /\ Len(pending) < MaxPending
  /\ calls' = IF op.kind = "load" THEN calls ELSE calls + 1
  /\ pending' = Append(pending, op)
  /\ last' = Idle
  /\ UNCHANGED <<user, transactions, balance, remote, cache, nextId, clock, offlineIds,
                 storage, deleted>>

\* the browser's storage fills up (setItem throws from now on) or is freed again
StorageChanges ==
  /\ storage' = IF storage = "ok" THEN "full" ELSE "ok"
  /\ last' = Idle
  /\ UNCHANGED <<user, transactions, balance, remote, cache, pending, nextId, clock, calls,
                 offlineIds, deleted>>

\* refreshData -> loadTransactions
refreshData ==
  \/ NotSignedIn
  \/ Send(Call("load", user, <<>>, 0, "expense", 0, 0, UnknownId, NoUpdates, offlineIds))

\* ------------------------------------------------- the provider's interface
\* validateTransaction(cost): balance >= cost
validateTransaction(cost) == balance >= cost

\* addTransaction(transaction): no check of its own, it sends the insert
addTransaction(type, q, cost) ==
  \/ NotSignedIn
  \/ /\ nextId + PendingAdds <= MaxTx
     /\ Send(Call("add", user, transactions, balance, type, q, cost, UnknownId, NoUpdates, {}))

\* updateTransaction(id, updates)
updateTransaction(id, updates) ==
  \/ NotSignedIn
  \/ Send(Call("update", user, transactions, balance, "expense", 0, 0, id, updates, {}))

\* deleteTransaction(id)
deleteTransaction(id) ==
  \/ NotSignedIn
  \/ Send(Call("delete", user, transactions, balance, "expense", 0, 0, id, NoUpdates, {}))

\* deleteAllTransactions(transactionsToDelete): the list is given by its ids
deleteAllTransactions(ids) ==
  \/ NotSignedIn
  \/ Send(Call("deleteAll", user, transactions, balance, "expense", 0, 0, UnknownId, NoUpdates, ids))

\* a comparison that never takes the delete-all branch
isDeleteAllNever(op) == FALSE

\* isDeleteAll = transactionsToDelete.length === transactions.length
isDeleteAll(op) == Cardinality(op.ids) = Len(op.txs)

\* generateSampleData: one deposit and SampleCount expenses, sorted, no remote call
SampleCount == 1
SampleDepositCost == 2000
SampleExpenseCost == 10
SampleDepositAge == 30
\* how long before now a sample expense is dated: randomDaysAgo days back, at a random
\* hour and minute of that day, which for 0 days back can lie after now (below 0)
SampleDaysAgo == {-2, 0, 1}

SampleList(u, firstId, now, daysAgo) ==
  <<Transaction(firstId, u, "deposit", 1, SampleDepositCost, SampleDepositCost,
                now - SampleDepositAge, now - SampleDepositAge)>>
  \o [i \in 1..SampleCount |->
        Transaction(firstId + i, u, "expense", 1, SampleExpenseCost, SampleExpenseCost,
                    now - daysAgo[i], now - daysAgo[i])]

generateSampleData ==
  \/ NotSignedIn
  \/ /\ user # NoUser
     /\ nextId + PendingAdds + SampleCount <= MaxTx
     /\ calls' = calls + 1
     /\ \E daysAgo \in [1..SampleCount -> SampleDaysAgo] :
          LET sampleTransactions == SortByCreatedDesc(SampleList(user, nextId, clock, daysAgo))
          IN /\ transactions' = sampleTransactions
             /\ balance' = calculateBalance(sampleTransactions)
             /\ cache' = saveTransactionsLocally(cache, user, sampleTransactions)
     /\ nextId' = nextId + SampleCount + 1
     /\ clock' = clock + 1
     /\ last' = [Did("sample", "local", user, UnknownId, 0, {}) EXCEPT !.success = 1]
     /\ UNCHANGED <<user, remote, pending, offlineIds, storage, deleted>>

\* ------------------------------------------------------------- the forms
\* TransactionForm.handleSubmit
TransactionFormSubmit(q, cost) ==
  LET totalCost == q * cost IN
  IF totalCost <= 0 \/ ~validateTransaction(totalCost)
  THEN Rejected
  ELSE addTransaction("expense", q, cost)

\* AddFundsModal.handleSubmit
AddFundsSubmit(amount) ==
  IF amount <= 0
  THEN Rejected
  ELSE addTransaction("deposit", 1, amount)

\* EditTransactionModal: costDifference, newBalance, canSubmit, handleSubmit
costDifference(t, q, cost) ==
  (IF t.type = "deposit" THEN cost ELSE q * cost) - t.total_cost

canSubmit(t, q, cost) ==
  /\ (t.type = "deposit" \/ q > 0)
  /\ (IF t.type = "deposit" THEN cost ELSE q * cost) > 0
  /\ (t.type = "deposit" \/ balance - costDifference(t, q, cost) >= 0)

EditPassesChecks(t, q, cost) ==
  /\ ~(t.type # "deposit" /\ q <= 0)
  /\ (IF t.type = "deposit" THEN cost ELSE q * cost) > 0
  /\ ~(t.type = "expense" /\ costDifference(t, q, cost) > 0
         /\ ~validateTransaction(costDifference(t, q, cost)))

EditAllowed(t, q, cost) == canSubmit(t, q, cost) /\ EditPassesChecks(t, q, cost)

EditSubmit(t, q, cost) ==
  IF ~EditAllowed(t, q, cost)
  THEN Rejected
  ELSE updateTransaction(t.id, Updates({"quantity", "unit_cost"},
                                       IF t.type = "deposit" THEN 1 ELSE q, cost, 0))

\* ------------------------------------------------------ the remote answers
Answered(i, stage, data) ==
  pending' = [pending EXCEPT ![i] = [@ EXCEPT !.stage = stage, !.data = data]]

\* the request fails (network, service): { error }, the table is untouched
RemoteFails(i) ==
  /\ pending[i].stage = "sent"
  /\ Answered(i, "err", <<>>)
  /\ UNCHANGED <<remote, nextId, clock>>

\* .select('*').eq('user_id', user.id).order('created_at', { ascending: false })
RemoteSelect(i) ==
  /\ pending[i].stage = "sent" /\ pending[i].kind = "load"
  /\ Answered(i, "ok", OrderByCreatedDesc(RowsOf(remote, pending[i].user)))
  /\ UNCHANGED <<remote, nextId, clock>>

\* .insert([{ user_id, ...transaction }]).select().single()
RemoteInsert(i) ==
  LET op == pending[i]
      row == Transaction(nextId, op.user, op.type, op.quantity, op.unit_cost,
                         op.quantity * op.unit_cost, clock, clock)
  IN /\ op.stage = "sent" /\ op.kind = "add"
     /\ IF RowChecksHold(row)
        THEN /\ remote' = remote \cup {row}
             /\ nextId' = nextId + 1
             /\ clock' = clock + 1
             /\ Answered(i, "ok", <<row>>)
        ELSE /\ Answered(i, "err", <<>>)
             /\ UNCHANGED <<remote, nextId, clock>>

\* .update(updates).eq('id', id).eq('user_id', user.id).select().single()
RemoteUpdate(i) ==
  LET op == pending[i]
      hit == {r \in remote : r.id = op.id /\ r.user_id = op.user}
  IN /\ op.stage = "sent" /\ op.kind = "update"
     /\ IF hit = {} \/ "total_cost" \in op.updates.keys
        THEN /\ Answered(i, "err", <<>>)
             /\ UNCHANGED remote
        ELSE LET old == CHOOSE r \in hit : TRUE
                 new == Generated(Spread(old, op.updates))
             IN IF UpdateAccepted(remote, old, new, op.user)
                THEN /\ remote' = (remote \ {old}) \cup {new}
                     /\ Answered(i, "ok", <<new>>)
                ELSE /\ Answered(i, "err", <<>>)
                     /\ UNCHANGED remote
     /\ UNCHANGED <<nextId, clock>>

\* .delete().eq('id', id).eq('user_id', user.id)
RemoteDelete(i) ==
  LET op == pending[i]
  IN /\ op.stage = "sent" /\ op.kind = "delete"
     /\ remote' = {r \in remote : ~(r.id = op.id /\ r.user_id = op.user)}
     /\ Answered(i, "ok", <<>>)
     /\ UNCHANGED <<nextId, clock>>

\* .delete().eq('user_id', user.id)  or  .delete().in('id', ids).eq('user_id', user.id)
RemoteDeleteMany(i) ==
  LET op == pending[i]
  IN /\ op.stage = "sent" /\ op.kind = "deleteAll"
     /\ remote' = {r \in remote :
                     ~(r.user_id = op.user /\ (isDeleteAll(op) \/ r.id \in op.ids))}
     /\ Answered(i, "ok", <<>>)
     /\ UNCHANGED <<nextId, clock>>

RemoteAnswers(i) ==
  /\ \/ RemoteFails(i)
     \/ RemoteSelect(i)
     \/ RemoteInsert(i)
     \/ RemoteUpdate(i)
     \/ RemoteDelete(i)
     \/ RemoteDeleteMany(i)
  /\ last' = Idle
  /\ UNCHANGED <<user, transactions, balance, cache, calls, offlineIds, storage, deleted>>

\* ------------------------------------------------------- the continuations
\* setTransactions(txs); setBalance(calculateBalance(txs)); saveTransactionsLocally(txs)
Commit(op, txs) ==
  /\ transactions' = txs
  /\ balance' = calculateBalance(txs)
  /\ cache' = saveTransactionsLocally(cache, op.user, txs)

\* loadTransactions after the await: the rows, or the cached list if there is one
LoadDone(i) ==
  LET op == pending[i]
      saved == cache[op.user]
  IN /\ op.kind = "load"
     /\ IF op.stage = "ok"
        THEN /\ transactions' = op.data
             /\ balance' = calculateBalance(op.data)
             /\ last' = Did("load", "remote", op.user, UnknownId, 0, op.ids)
        ELSE /\ transactions' = IF saved.present THEN saved.txs ELSE transactions
             /\ balance' = IF saved.present THEN calculateBalance(saved.txs) ELSE balance
             /\ last' = Did("load", "fallback", op.user, UnknownId, 0, op.ids)
     /\ UNCHANGED <<cache, nextId, clock, offlineIds, deleted>>

\* addTransaction after the await: [data, ...transactions], or the catch branch
AddDone(i) ==
  LET op == pending[i]
      newTransaction == Transaction(nextId, op.user, op.type, op.quantity, op.unit_cost,
                                    op.quantity * op.unit_cost, clock, clock)
  IN /\ op.kind = "add"
     /\ IF op.stage = "ok"
        THEN /\ Commit(op, <<op.data[1]>> \o op.txs)
             /\ last' = DidTo(op, "remote", op.data[1].id, 0, 1)
             /\ UNCHANGED <<nextId, clock, offlineIds>>
        ELSE /\ Commit(op, <<newTransaction>> \o op.txs)
             /\ nextId' = nextId + 1
             /\ clock' = clock + 1
             /\ offlineIds' = offlineIds \cup {newTransaction.id}
             /\ last' = DidTo(op, "fallback", newTransaction.id, 1, 1)
     /\ UNCHANGED deleted

\* a catch branch that leaves the transaction as it was
UpdatedLocallyDropped(t, updates, now) == t

\* the catch branch of updateTransaction, for one transaction
UpdatedLocally(t, updates, now) ==
  LET updated == [Spread(t, updates) EXCEPT !.updated_at = now]
  IN IF "quantity" \in updates.keys \/ "unit_cost" \in updates.keys
     THEN [updated EXCEPT !.total_cost = updated.quantity * updated.unit_cost]
     ELSE updated

\* transactions.map(transaction => transaction.id === id ? updated : transaction)
PatchAt(txs, id, updates, now) ==
  [i \in 1..Len(txs) |-> IF txs[i].id = id THEN UpdatedLocally(txs[i], updates, now)
                                           ELSE txs[i]]

\* updateTransaction after the await
UpdateDone(i) ==
  LET op == pending[i]
  IN /\ op.kind = "update"
     /\ IF op.stage = "ok"
        THEN /\ Commit(op, ReplaceAt(op.txs, op.id, op.data[1]))
             /\ last' = DidTo(op, "remote", op.id, 0, 1)
             /\ clock' = clock
        ELSE /\ Commit(op, PatchAt(op.txs, op.id, op.updates, clock))
             /\ last' = DidTo(op, "fallback", op.id, 1, 1)
             /\ clock' = IF op.id \in IdsOf(op.txs) THEN clock + 1 ELSE clock
     /\ UNCHANGED <<nextId, offlineIds, deleted>>

\* deleteTransaction after the await: the same filter on both branches
DeleteDone(i) ==
  LET op == pending[i]
  IN /\ op.kind = "delete"
     /\ Commit(op, WithoutIds(op.txs, {op.id}))
     /\ last' = IF op.stage = "ok" THEN DidTo(op, "remote", op.id, 0, 1)
                                   ELSE DidTo(op, "fallback", op.id, 1, 1)
     /\ deleted' = deleted \cup ({op.id} \cap IdsOf(op.txs))
     /\ UNCHANGED <<nextId, clock, offlineIds>>

\* deleteAllTransactions after the await
DeleteAllDone(i) ==
  LET op == pending[i]
  IN /\ op.kind = "deleteAll"
     /\ IF isDeleteAll(op)
        THEN /\ transactions' = <<>>
             /\ balance' = 0
             /\ cache' = saveTransactionsLocally(cache, op.user, <<>>)
        ELSE Commit(op, WithoutIds(op.txs, op.ids))
     /\ last' = IF op.stage = "ok" THEN DidTo(op, "remote", UnknownId, 0, 1)
                                   ELSE DidTo(op, "fallback", UnknownId, 1, 1)
     /\ deleted' = deleted \cup (IF isDeleteAll(op) THEN IdsOf(op.txs)
                                                     ELSE op.ids \cap IdsOf(op.txs))
     /\ UNCHANGED <<nextId, clock, offlineIds>>

Continues(i) ==
  /\ pending[i].stage # "sent"
  /\ \/ LoadDone(i)
     \/ AddDone(i)
     \/ UpdateDone(i)
     \/ DeleteDone(i)
     \/ DeleteAllDone(i)
  /\ pending' = Remove(pending, i)
  /\ UNCHANGED <<user, remote, calls, storage>>

\* ---------------------------------------------------------- specification
\* the ids a caller can name: those handed out so far, and a made-up one
KnownIds == (1..(nextId - 1)) \cup {UnknownId}

\* one user's session, every operation of the provider and every form
Next ==
  \/ SignIn("u1")
  \/ SignOut
  \/ refreshData
  \/ /\ calls < MaxCalls
     /\ \E type \in Types, q \in Quantities, cost \in UnitCosts : addTransaction(type, q, cost)
  \/ /\ calls < MaxCalls
     /\ \E id \in KnownIds, keys \in UpdateShapes, q \in Quantities, cost \in UnitCosts,
           total \in TotalCosts : updateTransaction(id, Updates(keys, q, cost, total))
  \/ /\ calls < MaxCalls
     /\ \E id \in KnownIds : deleteTransaction(id)
  \/ /\ calls < MaxCalls
     /\ \E ids \in SUBSET KnownIds : deleteAllTransactions(ids)
  \/ /\ calls < MaxCalls
     /\ generateSampleData
  \/ /\ calls < MaxCalls
     /\ \E q \in Quantities, cost \in UnitCosts : TransactionFormSubmit(q, cost)
  \/ /\ calls < MaxCalls
     /\ \E amount \in UnitCosts : AddFundsSubmit(amount)
  \/ /\ calls < MaxCalls
     /\ \E n \in 1..Len(transactions), q \in Quantities, cost \in UnitCosts :
           EditSubmit(transactions[n], q, cost)
  \/ \E i \in 1..Len(pending) : RemoteAnswers(i)
  \/ \E i \in 1..Len(pending) : Continues(i)

Spec == Init /\ [][Next]_vars

\* the two forms that add, used as fast as the user can submit them
NextForms ==
  \/ SignIn("u1")
  \/ \E q \in Quantities, cost \in UnitCosts : TransactionFormSubmit(q, cost)
  \/ \E amount \in UnitCosts : AddFundsSubmit(amount)
  \/ \E i \in 1..Len(pending) : RemoteAnswers(i)
  \/ \E i \in 1..Len(pending) : Continues(i)

SpecForms == Init /\ [][NextForms]_vars

\* two users taking turns on the same browser
NextUsers ==
  \/ \E u \in Users : SignIn(u)
  \/ SignOut
  \/ refreshData
  \/ /\ calls < MaxCalls
     /\ \E type \in Types, q \in Quantities, cost \in UnitCosts : addTransaction(type, q, cost)
  \/ \E i \in 1..Len(pending) : RemoteAnswers(i)
  \/ \E i \in 1..Len(pending) : Continues(i)

SpecUsers == Init /\ [][NextUsers]_vars

\* one user who adds funds or sample data and deletes, one id more than once
MaxDeleteCalls == 3

NextDelete ==
  \/ SignIn("u1")
  \/ /\ calls < MaxDeleteCalls
     /\ generateSampleData
  \/ /\ calls < MaxDeleteCalls
     /\ \E amount \in UnitCosts : AddFundsSubmit(amount)
  \/ /\ calls < MaxDeleteCalls
     /\ \E id \in KnownIds : deleteTransaction(id)
  \/ \E i \in 1..Len(pending) : RemoteAnswers(i)
  \/ \E i \in 1..Len(pending) : Continues(i)

SpecDelete == Init /\ [][NextDelete]_vars

\* one user adding through the forms while localStorage may refuse writes
NextStorage ==
  \/ SignIn("u1")
  \/ StorageChanges
  \/ /\ calls < MaxCalls
     /\ \E q \in Quantities, cost \in UnitCosts : TransactionFormSubmit(q, cost)
  \/ /\ calls < MaxCalls
     /\ \E amount \in UnitCosts : AddFundsSubmit(amount)
  \/ \E i \in 1..Len(pending) : RemoteAnswers(i)
  \/ \E i \in 1..Len(pending) : Continues(i)

SpecStorage == Init /\ [][NextStorage]_vars

\* one user calling addTransaction and updateTransaction with any field values
AnyQuantities == {-1, 0, 1}
AnyUnitCosts == {-1, 0, 1}

NextFields ==
  \/ SignIn("u1")
  \/ /\ calls < MaxCalls
     /\ \E type \in Types, q \in AnyQuantities, cost \in AnyUnitCosts :
           addTransaction(type, q, cost)
  \/ /\ calls < MaxCalls
     /\ \E id \in KnownIds, keys \in {{"quantity"}, {"unit_cost"}},
           q \in AnyQuantities, cost \in AnyUnitCosts :
           updateTransaction(id, Updates(keys, q, cost, 0))
  \/ \E i \in 1..Len(pending) : RemoteAnswers(i)
  \/ \E i \in 1..Len(pending) : Continues(i)

SpecFields == Init /\ [][NextFields]_vars

\* two users taking turns, each naming any id in an update or a delete
NextOwners ==
  \/ \E u \in Users : SignIn(u)
  \/ SignOut
  \/ /\ calls < MaxCalls
     /\ \E amount \in UnitCosts : AddFundsSubmit(amount)
  \/ /\ calls < MaxCalls
     /\ \E id \in KnownIds, q \in Quantities : updateTransaction(id, Updates({"quantity"}, q, 0, 0))
  \/ /\ calls < MaxCalls
     /\ \E id \in KnownIds : deleteTransaction(id)
  \/ \E i \in 1..Len(pending) : RemoteAnswers(i)
  \/ \E i \in 1..Len(pending) : Continues(i)

SpecOwners == Init /\ [][NextOwners]_vars

\* one user adding funds and calling updateTransaction with updates that name an id
\* (one of the ledger's, or ForgedId) or a user
ForgedId == MaxTx + 1

NextIdentity ==
  \/ SignIn("u1")
  \/ /\ calls < MaxCalls
     /\ \E amount \in UnitCosts : AddFundsSubmit(amount)
  \/ /\ calls < MaxCalls
     /\ \E id \in KnownIds, keys \in {{"id"}, {"user_id"}}, to \in (1..(nextId - 1)) \cup {ForgedId},
           uid \in Users : updateTransaction(id, IdentityUpdates(keys, to, uid))
  \/ \E i \in 1..Len(pending) : RemoteAnswers(i)
  \/ \E i \in 1..Len(pending) : Continues(i)

SpecIdentity == Init /\ [][NextIdentity]_vars

\* one user working through the forms one call at a time: the next call is made
\* when the last has finished; no deposit is deleted and none is edited down
MaxSequentialCalls == 3

NextSequential ==
  \/ SignIn("u1")
  \/ /\ pending = <<>>
     /\ refreshData
  \/ /\ pending = <<>> /\ calls < MaxSequentialCalls
     /\ \E q \in Quantities, cost \in UnitCosts : TransactionFormSubmit(q, cost)
  \/ /\ pending = <<>> /\ calls < MaxSequentialCalls
     /\ \E amount \in UnitCosts : AddFundsSubmit(amount)
  \/ /\ pending = <<>> /\ calls < MaxSequentialCalls
     /\ \E n \in 1..Len(transactions), q \in Quantities, cost \in UnitCosts :
           /\ transactions[n].type = "deposit" => cost >= transactions[n].total_cost
           /\ EditSubmit(transactions[n], q, cost)
  \/ /\ pending = <<>> /\ calls < MaxSequentialCalls
     /\ \E n \in 1..Len(transactions) :
           /\ transactions[n].type = "expense"
           /\ deleteTransaction(transactions[n].id)
  \/ \E i \in 1..Len(pending) : RemoteAnswers(i)
  \/ \E i \in 1..Len(pending) : Continues(i)

SpecSequential == Init /\ [][NextSequential]_vars

\* -------------------------------------------------------------- numbers
\* A JavaScript number is a binary64: zero, or a sign, 53 significant bits (most
\* significant first, the first one set) and the exponent of the last bit.  Every
\* result is rounded to the nearest such value, ties to the even one.
MantissaBits == 53

Zeros(k) == [i \in 1..k |-> 0]

\* a natural number as a bit sequence without leading zeros
Strip(bs) ==
  IF \A i \in 1..Len(bs) : bs[i] = 0 THEN <<>>
  ELSE SubSeq(bs, CHOOSE i \in 1..Len(bs) : bs[i] = 1 /\ \A k \in 1..(i - 1) : bs[k] = 0,
              Len(bs))

BitsOfWidth(n, width) == [i \in 1..width |-> (n \div 2 ^ (width - i)) % 2]

BitsOf(n) == Strip(BitsOfWidth(n, 31))

PadLeft(bs, len) == Zeros(len - Len(bs)) \o bs

CarryInto(a, b, i) ==
  \E j \in (i + 1)..Len(a) : a[j] + b[j] = 2 /\ \A k \in (i + 1)..(j - 1) : a[k] + b[k] = 1

AddBits(x, y) ==
  LET len == 1 + (IF Len(x) > Len(y) THEN Len(x) ELSE Len(y))
      a == PadLeft(x, len)
      b == PadLeft(y, len)
  IN Strip([i \in 1..len |-> (a[i] + b[i] + (IF CarryInto(a, b, i) THEN 1 ELSE 0)) % 2])

BorrowFrom(a, b, i) ==
  \E j \in (i + 1)..Len(a) : a[j] < b[j] /\ \A k \in (i + 1)..(j - 1) : a[k] = b[k]

\* x - y for x >= y
SubBits(x, y) ==
  LET b == PadLeft(y, Len(x))
  IN Strip([i \in 1..Len(x) |-> (2 + x[i] - b[i] - (IF BorrowFrom(x, b, i) THEN 1 ELSE 0)) % 2])

LessBits(a, b) ==
  \/ Len(a) < Len(b)
  \/ Len(a) = Len(b) /\ \E i \in 1..Len(a) : a[i] < b[i] /\ \A k \in 1..(i - 1) : a[k] = b[k]

RECURSIVE MulBits(_, _)
MulBits(a, n) ==
  IF n = 0 THEN <<>>
  ELSE LET rest == MulBits(a \o <<0>>, n \div 2)
       IN IF n % 2 = 1 THEN AddBits(rest, a) ELSE rest

Zero == [sign |-> 0, bits |-> <<>>, exp |-> 0]

\* the binary64 nearest to sign * bs * 2^e (plus a nonzero rest below the last bit
\* of bs when sticky), ties to even
Round(sign, bs, sticky, e) ==
  IF bs = <<>> THEN Zero
  ELSE IF Len(bs) <= MantissaBits
  THEN [sign |-> sign, bits |-> bs \o Zeros(MantissaBits - Len(bs)),
        exp |-> e - (MantissaBits - Len(bs))]
  ELSE LET keep == SubSeq(bs, 1, MantissaBits)
           rest == sticky \/ \E i \in (MantissaBits + 2)..Len(bs) : bs[i] = 1
           up == bs[MantissaBits + 1] = 1 /\ (rest \/ keep[MantissaBits] = 1)
           inc == IF up THEN AddBits(keep, <<1>>) ELSE keep
           x == e + (Len(bs) - MantissaBits)
       IN IF Len(inc) > MantissaBits
          THEN [sign |-> sign, bits |-> SubSeq(inc, 1, MantissaBits), exp |-> x + 1]
          ELSE [sign |-> sign, bits |-> inc, exp |-> x]

\* long division, sixteen bits at a time, until the quotient has two bits more
\* than a number keeps or the remainder is zero
RECURSIVE Quotient(_, _, _, _)
Quotient(bs, r, n, places) ==
  IF Len(bs) >= MantissaBits + 2 \/ r = 0
  THEN [bits |-> bs, rem |-> r, places |-> places]
  ELSE Quotient(Strip(bs \o BitsOfWidth((r * 65536) \div n, 16)),
                (r * 65536) % n, n, places + 16)

\* num / den for whole num >= 0 and den > 0; also the number a decimal literal
\* num/den parses to
Divide(num, den) ==
  LET q == Quotient(BitsOf(num \div den), num % den, den, 0)
  IN Round(1, q.bits, q.rem # 0, 0 - q.places)

Negate(x) == [x EXCEPT !.sign = 0 - x.sign]

\* x + y
Plus(x, y) ==
  IF x.sign = 0 THEN y
  ELSE IF y.sign = 0 THEN x
  ELSE LET e == IF x.exp < y.exp THEN x.exp ELSE y.exp
           a == x.bits \o Zeros(x.exp - e)
           b == y.bits \o Zeros(y.exp - e)
       IN IF x.sign = y.sign THEN Round(x.sign, AddBits(a, b), FALSE, e)
          ELSE IF LessBits(a, b) THEN Round(y.sign, SubBits(b, a), FALSE, e)
          ELSE Round(x.sign, SubBits(a, b), FALSE, e)

\* x - y
Minus(x, y) == Plus(x, Negate(y))

\* x * n for a whole n >= 0
Times(x, n) == Round(x.sign, MulBits(x.bits, n), FALSE, x.exp)

\* the number a whole n >= 0 is
Whole(n) == Round(1, BitsOf(n), FALSE, 0)

\* ---------------------------------------------------- getSpendingSummary
\* created_at of a remote row is a timestamptz (microseconds); new Date(...) keeps
\* milliseconds.  A timestamp is a count of ticks, TicksPerMs of them in a millisecond.
TicksPerMs == 2
NoDate == -1          \* startDate / endDate left out

\* new Date(s).getTime(): the milliseconds of a timestamp string, the rest dropped
NewDate(s) == s \div TicksPerMs

\* Date.prototype.toISOString(): the timestamp string of a millisecond
ToISOString(ms) == ms * TicksPerMs

\* properties every object literal inherits: acc[key] is truthy for them
ObjectPrototypeKeys == {"constructor"}

\* a window that leaves out the transactions of its last millisecond
filteredTransactionsBeforeEnd(txs, startDate, endDate) ==
  LET inWindow(t) ==
        IF startDate = NoDate \/ endDate = NoDate THEN TRUE
        ELSE /\ NewDate(t.created_at) >= NewDate(startDate)
             /\ NewDate(t.created_at) < NewDate(endDate)
  IN SelectSeq(txs, inWindow)

filteredTransactions(txs, startDate, endDate) ==
  LET inWindow(t) ==
        IF startDate = NoDate \/ endDate = NoDate THEN TRUE
        ELSE /\ NewDate(t.created_at) >= NewDate(startDate)
             /\ NewDate(t.created_at) <= NewDate(endDate)
  IN SelectSeq(txs, inWindow)

OfType(txs, type) == LET is(t) == t.type = type IN SelectSeq(txs, is)

\* .reduce((sum, t) => sum + t.total_cost, 0)
RECURSIVE reduceTotal(_, _)
reduceTotal(txs, sum) ==
  IF txs = <<>> THEN sum ELSE reduceTotal(Tail(txs), sum + Head(txs).total_cost)

\* a quotient by one more than the number of expenses
avgTransactionUnguarded(totalSpent, count) == Divide(totalSpent, count + 1)

\* expenseTransactions.length > 0 ? totalSpent / expenseTransactions.length : 0
avgTransaction(totalSpent, count) ==
  IF count > 0 THEN Divide(totalSpent, count) ELSE Zero

\* the reduce over an object literal: a key the literal inherits is never created,
\* its count and total land on the inherited object
RECURSIVE categoriesFrom(_, _)
categoriesFrom(txs, acc) ==
  IF txs = <<>> THEN acc
  ELSE LET c == Head(txs).category
           started == IF c \in DOMAIN acc \/ c \in ObjectPrototypeKeys THEN acc
                      ELSE acc @@ (c :> [count |-> 0, total |-> 0])
       IN categoriesFrom(Tail(txs),
            IF c \in DOMAIN started
            THEN [started EXCEPT ![c] = [count |-> @.count + 1,
                                         total |-> @.total + Head(txs).total_cost]]
            ELSE started)

SpendingSummary(txs, startDate, endDate) ==
  LET filtered == filteredTransactions(txs, startDate, endDate)
      expenseTransactions == OfType(filtered, "expense")
      totalSpent == reduceTotal(expenseTransactions, 0)
  IN [total_spent |-> totalSpent,
      total_deposits |-> reduceTotal(OfType(filtered, "deposit"), 0),
      transaction_count |-> Len(filtered),
      avg_transaction |-> avgTransaction(totalSpent, Len(expenseTransactions)),
      categories |-> categoriesFrom(expenseTransactions, <<>>)]

\* what a call of getSpendingSummary returned, and for which window
DidSummary(u, startDate, endDate, result) ==
  [startDate |-> startDate, endDate |-> endDate, result |-> result]
    @@ Did("summary", "local", u, UnknownId, 0, {})

\* getSpendingSummary(startDate, endDate): reads the list of its render, no await
getSpendingSummary(startDate, endDate) ==
  /\ last' = DidSummary(user, startDate, endDate,
                        SpendingSummary(transactions, startDate, endDate))
  /\ UNCHANGED <<user, transactions, balance, remote, cache, pending, nextId, clock, calls,
                 offlineIds, storage, deleted>>

\* the ledgers a summary is asked of: up to two transactions of either type, any
\* category and instant, alone or above a run of MaxBulk equal expenses, newest first
MaxBulk == 6
SummaryCost == 5
BulkCost == 4
SummaryCategories == {"food", "crypto", "constructor"}
WindowMs == 0..3
SummaryInstants == 0..(2 * TicksPerMs - 1)

Categorised(t, category) == [category |-> category] @@ t

SummaryEntries ==
  [type : Types, category : SummaryCategories, created_at : SummaryInstants]

Ledger(entries, bulk) ==
  [i \in 1..(Len(entries) + bulk) |->
     IF i <= Len(entries)
     THEN Categorised(Transaction(i, "u1", entries[i].type, 1, SummaryCost, SummaryCost,
                                  entries[i].created_at, entries[i].created_at),
                      entries[i].category)
     ELSE Categorised(Transaction(i, "u1", "expense", 1, BulkCost, BulkCost, 0, 0), "food")]

\* a deposit of 2000 on day 1, an expense of 3 x 10 on day 2, an expense of 5 on day 40
ExampleLedger ==
  <<Categorised(Transaction(3, "u1", "expense", 1, 5, 5, ToISOString(40), ToISOString(40)), "food"),
    Categorised(Transaction(2, "u1", "expense", 3, 10, 30, ToISOString(2), ToISOString(2)), "food"),
    Categorised(Transaction(1, "u1", "deposit", 1, 2000, 2000, ToISOString(1), ToISOString(1)), "other")>>

SummaryLedgers ==
  {ExampleLedger}
  \cup {Ledger(entries, bulk) :
          entries \in {e \in UNION {[1..n -> SummaryEntries] : n \in 0..2} :
                         \A i \in 1..(Len(e) - 1) : e[i].created_at >= e[i + 1].created_at},
          bulk \in {0, MaxBulk}}

WindowDates == {NoDate} \cup {ToISOString(ms) : ms \in WindowMs}

\* a signed-in user whose list has loaded
InitSummary ==
  /\ user = "u1"
  /\ transactions \in SummaryLedgers
  /\ balance = calculateBalance(transactions)
  /\ remote = {transactions[i] : i \in 1..Len(transactions)}
  /\ cache = [u \in Users |-> IF u = "u1" THEN [present |-> TRUE, txs |-> transactions]
                                          ELSE [present |-> FALSE, txs |-> <<>>]]
  /\ pending = <<>>
  /\ nextId = Len(transactions) + 1
  /\ clock = ToISOString(41)
  /\ calls = 0
  /\ offlineIds = {}
  /\ storage = "ok"
  /\ deleted = {}
  /\ last = Idle

NextSummary == \E startDate \in WindowDates, endDate \in WindowDates :
                  getSpendingSummary(startDate, endDate)

SpecSummary == InitSummary /\ [][NextSummary]_vars

\* ------------------------------------------ calculateBalance over amounts
\* calculateBalance where total_cost is a number with two decimal places: the same
\* reduce, with the + and - of numbers
RECURSIVE calculateBalanceOfNumbers(_, _)
calculateBalanceOfNumbers(txs, total) ==
  IF txs = <<>> THEN total
  ELSE calculateBalanceOfNumbers(Tail(txs),
         IF Head(txs).type = "deposit" THEN Plus(total, Head(txs).total_cost)
                                       ELSE Minus(total, Head(txs).total_cost))

MaxAmounts == 3
CentAmounts == {10, 20, 30}

\* the number an amount of so many cents is: parseFloat("0.10"), a numeric column in JSON
Amount(cents) == Divide(cents, 100)

AmountEntries == [type : Types, cents : CentAmounts]

\* transactions of one instant, in any order
AmountLedger(entries) ==
  [i \in 1..Len(entries) |->
     Transaction(i, "u1", entries[i].type, 1, Amount(entries[i].cents),
                 Amount(entries[i].cents), 1, 1)]

InitBalance ==
  /\ user = "u1"
  /\ transactions \in {AmountLedger(e) : e \in UNION {[1..n -> AmountEntries] : n \in 0..MaxAmounts}}
  /\ balance = calculateBalanceOfNumbers(transactions, Zero)
  /\ remote = {transactions[i] : i \in 1..Len(transactions)}
  /\ cache = [u \in Users |-> IF u = "u1" THEN [present |-> TRUE, txs |-> transactions]
                                          ELSE [present |-> FALSE, txs |-> <<>>]]
  /\ pending = <<>>
  /\ nextId = Len(transactions) + 1
  /\ clock = 2
  /\ calls = 0
  /\ offlineIds = {}
  /\ storage = "ok"
  /\ deleted = {}
  /\ last = Idle

\* setTransactions(list); setBalance(calculateBalance(list)) for the same transactions
\* with two neighbours in the other order
Rearranged(i) ==
  LET list == [transactions EXCEPT ![i] = transactions[i + 1], ![i + 1] = transactions[i]]
  IN /\ transactions' = list
     /\ balance' = calculateBalanceOfNumbers(list, Zero)
     /\ cache' = saveTransactionsLocally(cache, user, list)
     /\ last' = Did("balance", "local", user, UnknownId, 0, {})
     /\ UNCHANGED <<user, remote, pending, nextId, clock, calls, offlineIds, storage, deleted>>

NextBalance == \E i \in 1..(Len(transactions) - 1) : Rearranged(i)

SpecBalance == InitBalance /\ [][NextBalance]_vars

\* ------------------------------------------------------------------ claims
RECURSIVE SumCostAt(_, _)
SumCostAt(txs, at) ==
  IF at = {} THEN 0
  ELSE LET i == CHOOSE j \in at : TRUE
       IN txs[i].total_cost + SumCostAt(txs, at \ {i})

SumCost(txs, type) == SumCostAt(txs, {i \in 1..Len(txs) : txs[i].type = type})

TypesIn(txs) == {txs[i].type : i \in 1..Len(txs)}
Cost(op) == op.quantity * op.unit_cost
Mutations == {"add", "update", "delete", "deleteAll"}

C2_UnaffordableAddRejected ==
  \A i \in 1..Len(pending) :
    (pending[i].kind = "add" /\ pending[i].type = "expense")
      => Cost(pending[i]) <= pending[i].balance

\* C3: two overlapping expense adds checked against the same ledger, each affordable
\* alone and not together, are never both accepted by the store.
C3_OverlappingAddsSerialized ==
  \A i, j \in 1..Len(pending) :
    (/\ i # j
     /\ pending[i].kind = "add" /\ pending[j].kind = "add"
     /\ pending[i].type = "expense" /\ pending[j].type = "expense"
     /\ pending[i].txs = pending[j].txs
     /\ Cost(pending[i]) <= pending[i].balance
     /\ Cost(pending[j]) <= pending[j].balance
     /\ Cost(pending[i]) + Cost(pending[j]) > pending[i].balance)
      => ~(pending[i].stage = "ok" /\ pending[j].stage = "ok")

\* C4: every transaction of the in-memory ledger and of the local cache has
\* total_cost = quantity * unit_cost.
Derived(txs) == \A i \in 1..Len(txs) : txs[i].total_cost = txs[i].quantity * txs[i].unit_cost

C4_TotalCostDerived ==
  /\ Derived(transactions)
  /\ \A u \in Users : Derived(cache[u].txs)

\* C5: an edit that lowers an expense's total cost can be submitted whatever the
\* balance is.
C5_CheaperEditNeverBlocked ==
  \A i \in 1..Len(transactions), q \in Quantities, cost \in UnitCosts :
    (transactions[i].type = "expense" /\ q * cost < transactions[i].total_cost)
      => EditAllowed(transactions[i], q, cost)

\* C6: updateTransaction that raises an expense's total cost by more than the
\* balance is rejected: such a call never gets as far as the update.
C6_UnaffordableUpdateRejected ==
  \A i \in 1..Len(pending) : \A n \in 1..Len(pending[i].txs) :
    LET op == pending[i]
        old == op.txs[n]
        new == Spread(old, op.updates)
        delta == new.quantity * new.unit_cost - old.total_cost
    IN (op.kind = "update" /\ old.id = op.id /\ old.type = "expense" /\ delta > 0)
         => delta <= op.balance

\* C7: an add that fell back is in its user's local cache and raises one offline
\* notice, and every load called afterwards for that user lists it (as long as
\* the cache still holds it).
C7_OfflineAddSurvivesLoads ==
  /\ (last.kind = "add" /\ last.outcome = "fallback")
       => /\ last.id \in IdsOf(cache[last.user].txs)
          /\ last.offline = 1
  /\ last.kind = "load"
       => \A id \in last.seen :
            id \in IdsOf(cache[last.user].txs) => id \in IdsOf(transactions)

\* C8: after a completed add, update, delete or delete-all the local cache entry
\* of the signed-in user equals the in-memory list.
C8_CacheWrittenThrough ==
  (last.kind \in Mutations /\ user # NoUser)
    => (cache[user].present /\ cache[user].txs = transactions)

\* C9: the in-memory ledger holds only the signed-in user's transactions and each
\* cache entry only its own user's.
OwnedBy(txs, u) == \A i \in 1..Len(txs) : txs[i].user_id = u

C9_OwnerIsolation ==
  /\ OwnedBy(transactions, user)
  /\ \A u \in Users : OwnedBy(cache[u].txs, u)

\* C10: while nobody is signed in the in-memory list is empty and the balance 0.
C10_SignedOutLedgerEmpty ==
  user = NoUser => (transactions = <<>> /\ balance = 0)

\* a step in which the call pending[i] continues after its await, and one in which
\* the remote answers it
Finishes(i) == pending[i].stage # "sent" /\ pending' = Remove(pending, i)
Answers(i) ==
  /\ pending[i].stage = "sent"
  /\ Len(pending') = Len(pending)
  /\ pending'[i].stage # "sent"

RemoteIds(u) == {r.id : r \in RowsOf(remote, u)}

\* C11: deleteAllTransactions given a list that is not the full ledger removes from
\* the in-memory ledger, the cache and the remote table exactly the transactions
\* whose ids are in the list, also when the list is as long as the ledger.
C11_DeleteAllRemovesGivenIds ==
  [][\A i \in 1..Len(pending) :
       LET op == pending[i]
       IN (op.kind = "deleteAll" /\ op.ids # IdsOf(op.txs))
            => /\ (Finishes(i) /\ op.txs = transactions)
                    => /\ transactions' = WithoutIds(transactions, op.ids)
                       /\ cache'[op.user].txs = WithoutIds(transactions, op.ids)
               /\ (Answers(i) /\ pending'[i].stage = "ok")
                    => remote' = {r \in remote : ~(r.user_id = op.user /\ r.id \in op.ids)}]_vars

\* C12: when the remote delete of deleteAllTransactions fails, the in-memory ledger
\* after the call agrees with the remote table: a transaction the call had in its
\* list and the table still holds is still in the ledger.
C12_FailedDeleteAllResyncs ==
  [][\A i \in 1..Len(pending) :
       (pending[i].kind = "deleteAll" /\ pending[i].stage = "err" /\ Finishes(i))
         => (IdsOf(pending[i].txs) \cap RemoteIds(pending[i].user)) \subseteq IdsOf(transactions')]_vars

C14_DeleteIdempotent ==
  [][\A i \in 1..Len(pending) :
       LET op == pending[i]
           other(t) == t.id # op.id
       IN (/\ op.kind = "delete" /\ Finishes(i)
           /\ transactions = SelectSeq(op.txs, other)
           /\ op.id \notin IdsOf(transactions))
            => /\ transactions' = transactions
               /\ balance' = balance
               /\ last'.success = 1
               /\ (cache[op.user] = [present |-> TRUE, txs |-> transactions]
                     => cache' = cache)]_vars

\* C14, its case: a second delete of an id that an earlier delete removed has
\* finished, and the ledger still holds other transactions.
C14_Witness ==
  /\ last.kind = "delete" /\ last.success = 1
  /\ last.id \in deleted /\ last.id \notin last.had
  /\ transactions # <<>>
  /\ cache[last.user] = [present |-> TRUE, txs |-> transactions]

\* C15: an id that a finished deleteTransaction or deleteAllTransactions removed
\* never appears in the in-memory ledger again.
C15_NoResurrection == deleted \cap IdsOf(transactions) = {}

\* the list txs is the list of the call op with op's mutation applied
Applied(op, txs) ==
  CASE op.kind = "add" ->
         /\ txs # <<>> /\ Tail(txs) = op.txs
         /\ Head(txs).user_id = op.user /\ Head(txs).type = op.type
         /\ Head(txs).quantity = op.quantity /\ Head(txs).unit_cost = op.unit_cost
    [] op.kind = "update" ->
         /\ Len(txs) = Len(op.txs)
         /\ \A n \in 1..Len(txs) :
              IF op.txs[n].id = op.id
              THEN \A k \in op.updates.keys : txs[n][k] = op.updates[k]
              ELSE txs[n] = op.txs[n]
    [] op.kind = "delete" -> IdsOf(txs) = IdsOf(op.txs) \ {op.id}
    [] op.kind = "deleteAll" -> IdsOf(txs) \subseteq IdsOf(op.txs) \ op.ids
    [] OTHER -> FALSE

C17_LedgerIsDurable ==
  last.kind = "add"
    => \A n \in 1..Len(transactions) :
         LET t == transactions[n]
         IN t.id \in RemoteIds(t.user_id) \cup IdsOf(cache[t.user_id].txs)

\* C18: every transaction of the in-memory ledger and of the cache has
\* quantity >= 1, unit_cost >= 0 and total_cost > 0.
FieldsValid(txs) ==
  \A n \in 1..Len(txs) : txs[n].quantity >= 1 /\ txs[n].unit_cost >= 0 /\ txs[n].total_cost > 0

C18_FieldsValidated ==
  /\ FieldsValid(transactions)
  /\ \A u \in Users : FieldsValid(cache[u].txs)

\* C19: an update or a delete naming a transaction that another user owns (a row
\* of the remote table that is not in the caller's list) fails for that call: it
\* reports no success and does not take the offline fallback.
TargetsForeignRow(did) ==
  /\ did.id \notin did.had
  /\ \E r \in remote : r.id = did.id /\ r.user_id # did.user

C19_ForeignTargetDenied ==
  (last.kind \in {"update", "delete"} /\ TargetsForeignRow(last))
    => (last.success = 0 /\ last.outcome # "fallback")

\* C20: updateTransaction naming an id that is neither in the ledger nor in the
\* remote table surfaces an error: the call does not report success.
C20_UpdateOfUnknownIdFails ==
  (/\ last.kind = "update"
   /\ last.id \notin last.had
   /\ \A r \in remote : r.id # last.id)
    => last.success = 0

\* the positions of the in-memory list
Positions == 1..Len(transactions)

\* the three totals of a summary are those of the transactions at the positions `at`
TotalsAre(result, at) ==
  /\ result.total_spent = SumCostAt(transactions, {i \in at : transactions[i].type = "expense"})
  /\ result.total_deposits = SumCostAt(transactions, {i \in at : transactions[i].type = "deposit"})
  /\ result.transaction_count = Cardinality(at)

BothBounds == last.kind = "summary" /\ last.startDate # NoDate /\ last.endDate # NoDate
NoBounds == last.kind = "summary" /\ last.startDate = NoDate /\ last.endDate = NoDate

\* C21, as stated: with both bounds getSpendingSummary totals exactly the
\* transactions with startDate <= created_at <= endDate, and with no bounds all of them.
C21_WindowInclusive ==
  /\ BothBounds =>
       TotalsAre(last.result, {i \in Positions : /\ last.startDate <= transactions[i].created_at
                                                 /\ transactions[i].created_at <= last.endDate})
  /\ NoBounds => TotalsAre(last.result, Positions)

\* C21, amended: with both bounds getSpendingSummary totals exactly the transactions
\* whose created_at, cut to the millisecond, lies between the milliseconds of startDate
\* and endDate, both ends included; with no bounds it totals all of them.
C21_WindowInclusiveToTheMillisecond ==
  /\ BothBounds =>
       TotalsAre(last.result,
                 {i \in Positions :
                    /\ last.startDate \div TicksPerMs <= transactions[i].created_at \div TicksPerMs
                    /\ transactions[i].created_at \div TicksPerMs <= last.endDate \div TicksPerMs})
  /\ NoBounds => TotalsAre(last.result, Positions)

\* C21, its case: the ledger of the example asked for the days 1 to 3 gives 30 spent,
\* 2000 deposited and 2 transactions, the deposit lying on the first instant of the window.
C21_Witness ==
  /\ BothBounds
  /\ transactions = ExampleLedger
  /\ last.startDate = 1 * TicksPerMs /\ last.endDate = 3 * TicksPerMs
  /\ last.result.total_spent = 30
  /\ last.result.total_deposits = 2000
  /\ last.result.transaction_count = 2

\* the positions of the expenses a summary with the window of the last call covers
ExpensesInWindow ==
  {i \in Positions :
     /\ transactions[i].type = "expense"
     /\ \/ last.startDate = NoDate
        \/ last.endDate = NoDate
        \/ /\ last.startDate \div TicksPerMs <= transactions[i].created_at \div TicksPerMs
           /\ transactions[i].created_at \div TicksPerMs <= last.endDate \div TicksPerMs}

RECURSIVE SumBuckets(_, _)
SumBuckets(categories, keys) ==
  IF keys = {} THEN 0
  ELSE LET c == CHOOSE k \in keys : TRUE
       IN categories[c].total + SumBuckets(categories, keys \ {c})

\* C22: the keys of the category breakdown are exactly the category strings of the
\* expenses in the window, whatever the string; each bucket holds the count and the
\* total of its expenses, no deposit is in a bucket, and the bucket totals add up to
\* total_spent.
C22_BucketsAreTheCategories ==
  last.kind = "summary" =>
    LET categories == last.result.categories
        at(c) == {i \in ExpensesInWindow : transactions[i].category = c}
    IN /\ DOMAIN categories = {transactions[i].category : i \in ExpensesInWindow}
       /\ \A c \in DOMAIN categories :
            /\ categories[c].count = Cardinality(at(c))
            /\ categories[c].total = SumCostAt(transactions, at(c))
       /\ SumBuckets(categories, DOMAIN categories) = last.result.total_spent

\* the number x is a nearest binary64 to the quotient total / count of whole numbers
NearestToQuotient(x, total, count) ==
  IF total = 0 THEN x = Zero
  ELSE /\ x.sign = 1 /\ Len(x.bits) = MantissaBits /\ x.bits[1] = 1 /\ x.exp < 0
       /\ LET a == MulBits(x.bits, 2 * count)
              b == BitsOf(2 * total) \o Zeros(0 - x.exp)
              gap == IF LessBits(a, b) THEN SubBits(b, a) ELSE SubBits(a, b)
          IN ~LessBits(BitsOf(count), gap)

\* C23, as stated: avg_transaction times the number of expenses in the window is
\* total_spent when there is an expense, and avg_transaction is 0 when there is none.
C23_AverageTimesCountIsTotal ==
  last.kind = "summary" =>
    LET count == Cardinality(ExpensesInWindow)
    IN IF count = 0 THEN last.result.avg_transaction = Zero
       ELSE Times(last.result.avg_transaction, count) = Whole(last.result.total_spent)

\* C23, amended: when there is an expense in the window avg_transaction is total_spent
\* divided by the number of expenses and rounded to a nearest number, so that its
\* product with that number is total_spent up to rounding; it is 0 when there is none.
C23_AverageIsRoundedQuotient ==
  last.kind = "summary" =>
    LET count == Cardinality(ExpensesInWindow)
    IN IF count = 0 THEN last.result.avg_transaction = Zero
       ELSE NearestToQuotient(last.result.avg_transaction, last.result.total_spent, count)

\* C23, its case: seven expenses totalling 29 are averaged, and the average times
\* seven is not 29.
C23_Witness ==
  /\ last.kind = "summary"
  /\ Cardinality(ExpensesInWindow) = 7
  /\ last.result.total_spent = 29
  /\ last.result.avg_transaction = Divide(29, 7)
  /\ Times(last.result.avg_transaction, 7) # Whole(29)

\* C24: calculateBalance is a function of the list as a multiset: the balance does
\* not change when the same transactions come in another order, and it is 0 for the
\* empty list.
C24_OrderIndependent ==
  /\ [](transactions = <<>> => balance = Zero)
  /\ [][balance' = balance]_vars

Identities(rows) == {<<r.id, r.user_id>> : r \in rows}

\* C25: updateTransaction changes neither the id nor the user_id of any transaction,
\* whatever the updates carry: not in the remote table when the remote answers, and
\* not in the in-memory list or the cache when the call finishes, on either path.
C25_IdentityUnchanged ==
  [][\A i \in 1..Len(pending) :
       LET op == pending[i]
       IN op.kind = "update" =>
            /\ Answers(i) => Identities(remote') = Identities(remote)
            /\ Finishes(i) =>
                 /\ Len(transactions') = Len(op.txs)
                 /\ \A n \in 1..Len(op.txs) :
                      /\ transactions'[n].id = op.txs[n].id
                      /\ transactions'[n].user_id = op.txs[n].user_id
                 /\ (storage = "ok" => cache'[op.user].txs = transactions')]_vars

\* the transaction of a list that carries an id
WithId(txs, id) == txs[CHOOSE n \in 1..Len(txs) : txs[n].id = id]

\* C26: every updateTransaction that finishes with success leaves the updated_at of
\* the transaction it names strictly later than it was, on the remote path and on
\* the fallback path.
C26_UpdatedAtAdvances ==
  [][\A i \in 1..Len(pending) :
       LET op == pending[i]
       IN (op.kind = "update" /\ Finishes(i) /\ op.id \in IdsOf(op.txs)) =>
            /\ op.id \in IdsOf(transactions')
            /\ WithId(transactions', op.id).updated_at > WithId(op.txs, op.id).updated_at]_vars

NewestFirst(txs) == \A n \in 1..(Len(txs) - 1) : txs[n].created_at >= txs[n + 1].created_at

\* C27: after every operation the in-memory list is ordered newest first: created_at
\* never increases from one transaction to the next.
C27_NewestFirst == NewestFirst(transactions)

\* C28: when a load for user u finishes after the remote failed, the in-memory list
\* is the list cached for u and the balance is computed from it; when nothing is
\* cached for u the list is empty and the balance 0.
C28_FailedLoadShowsCache ==
  [][\A i \in 1..Len(pending) :
       LET op == pending[i]
           saved == cache[op.user]
       IN (op.kind = "load" /\ op.stage = "err" /\ Finishes(i)) =>
            /\ transactions' = (IF saved.present THEN saved.txs ELSE <<>>)
            /\ balance' = SumCost(transactions', "deposit") - SumCost(transactions', "expense")]_vars

\* C29: when two overlapping mutating calls both succeed remotely, then after both
\* have completed the ids in memory and in the cache are the ids the remote holds
\* for that user.  The two calls are two adds made from the same list, which held
\* the remote's rows; the second finishes right after the first, nothing else is in
\* flight.
C29_OverlappingCallsBothKept ==
  [][\A i \in 1..Len(pending) :
       LET op == pending[i]
       IN (/\ Finishes(i) /\ pending' = <<>>
           /\ op.kind = "add" /\ op.stage = "ok"
           /\ last.kind = "add" /\ last.outcome = "remote" /\ last.user = op.user
           /\ last.had = IdsOf(op.txs)
           /\ IdsOf(op.txs) = RemoteIds(op.user) \ {last.id, op.data[1].id}) =>
            /\ IdsOf(transactions') = RemoteIds(op.user)
            /\ IdsOf(cache'[op.user].txs) = RemoteIds(op.user)]_vars

\* C30: when the calls are made one after the other from an empty ledger, every
\* expense is added and every dearer edit made only after validateTransaction allowed
\* it, and no deposit is deleted or reduced, the balance is never below 0.
C30_BalanceNeverNegative == balance >= 0

====
